---- MODULE Spec2Model ----
(***************************************************************************)
(* Model of the DotBot backend optional services:                          *)
(*   backend/services/memory_service.py   (class MemoryService)            *)
(*   backend/services/payment_service.py  (class PaymentService)           *)
(*                                                                         *)
(* One instance of each service is shared by a set of asynchronous         *)
(* callers.  Calling an "async def" method only creates a coroutine        *)
(* object (action Call); its body runs when the event loop schedules it.   *)
(* No method body contains an await, so every body runs as one atomic      *)
(* step (one action per method).  Return discards a finished coroutine.    *)
(***************************************************************************)
EXTENDS Integers, Sequences, FiniteSets, TLC

\* ------------------------------------------------------------------ bounds
MaxKeys == 2          \* a payload dict holds at most MaxKeys entries

\* ------------------------------------------------------- program constants
DefaultLimit == 50    \* get_conversations(user_id, limit=50)

\* ----------------------------------------------------------------- inputs
Callers  == {"c1", "c2"}
Services == {"memory", "payment"}
UserIds  == {"u1", "u2"}
Limits   == {0, 1, DefaultLimit}

\* Dict keys, taken in this insertion order; a payload uses the first
\* MaxKeys names at most.
KeyNames == <<"a", "id", "msg">>

\* Python values a payload may hold.
PyInt(n)  == [kind |-> "int", int |-> n]
PyText(s) == [kind |-> "str", str |-> s]
PyValues  == {PyInt(1), PyText("hi")}

\* A payload (Dict[str, Any]) is the sequence of its items in insertion order.
RECURSIVE DictsFrom(_)
DictsFrom(i) ==
    IF i > MaxKeys \/ i > Len(KeyNames) THEN {<< >>}
    ELSE LET rest == DictsFrom(i + 1)
         IN  rest \cup { <<[key |-> KeyNames[i], value |-> v]>> \o d :
                             v \in PyValues, d \in rest }
Payloads == DictsFrom(1)

\* ------------------------------------------------- str() / len() of Python
Digits == <<"0", "1", "2", "3", "4", "5", "6", "7", "8", "9">>

\* str(n) for an int: decimal digits, most significant first, "-" if negative.
RECURSIVE DecimalNat(_)
DecimalNat(n) ==
    IF n < 10 THEN Digits[n + 1]
    ELSE DecimalNat(n \div 10) \o Digits[(n % 10) + 1]

Decimal(n) == IF n < 0 THEN "-" \o DecimalNat(0 - n) ELSE DecimalNat(n)

\* repr() of a str without quotes or escapes in it: the text in single quotes.
ReprStr(s) == "'" \o s \o "'"

\* repr() of a payload value.
Repr(v) == IF v.kind = "int" THEN Decimal(v.int) ELSE ReprStr(v.str)

\* str() of a dict: "{" + ", ".join(repr(k) + ": " + repr(v)) + "}".
RECURSIVE JoinItems(_)
JoinItems(d) ==
    IF Len(d) = 0 THEN ""
    ELSE LET item == ReprStr(d[1].key) \o ": " \o Repr(d[1].value)
         IN  IF Len(d) = 1 THEN item
             ELSE item \o ", " \o JoinItems(Tail(d))

PyStr(d) == "{" \o JoinItems(d) \o "}"

\* ------------------------------------------------------------ return values
NoValue      == [kind |-> "none"]
PyString(s)  == [kind |-> "str", str |-> s]
PyList(l)    == [kind |-> "list", list |-> l]
PyDict(d)    == [kind |-> "dict", dict |-> d]

Returned(v)  == [error |-> "none", message |-> "", value |-> v]
Raised(m)    == [error |-> "RuntimeError", message |-> m, value |-> NoValue]

NoCall == [svc |-> "none", op |-> "none"]
NoRet  == [error |-> "none", message |-> "", value |-> [kind |-> "unset"]]

\* ------------------------------------------------------------------- state
VARIABLES
    initialized,   \* initialized[s]: the flag self.initialized of service s
    pc,            \* pc[c]: "idle", "pending" (coroutine created), "done"
    call,          \* call[c]: the method and arguments of caller c's coroutine
    ret,           \* ret[c]: what the finished coroutine returned or raised
    completed      \* history: services on which an initialize() has finished

vars == <<initialized, pc, call, ret, completed>>

\* ---------------------------------------------------------------- the calls
MemoryCalls ==
         {[svc |-> "memory", op |-> "initialize"]}
    \cup {[svc |-> "memory", op |-> "save_conversation", conversation_data |-> p] :
             p \in Payloads}
    \cup {[svc |-> "memory", op |-> "get_conversations", user_id |-> u, limit |-> l] :
             u \in UserIds, l \in Limits}
    \cup {[svc |-> "memory", op |-> "save_preferences", user_id |-> u, preferences |-> p] :
             u \in UserIds, p \in Payloads}
    \cup {[svc |-> "memory", op |-> "get_status"]}

PaymentCalls ==
         {[svc |-> "payment", op |-> "initialize"]}
    \cup {[svc |-> "payment", op |-> "process_payment", payment_data |-> p] :
             p \in Payloads}
    \cup {[svc |-> "payment", op |-> "get_usage_stats", user_id |-> u] :
             u \in UserIds}
    \cup {[svc |-> "payment", op |-> "get_status"]}

AllCalls == MemoryCalls \cup PaymentCalls

DataOps == {"save_conversation", "get_conversations", "save_preferences",
            "process_payment", "get_usage_stats"}

\* ------------------------------------------------------------------- Init
\* MemoryService.__init__ and PaymentService.__init__: both flags False.
Init ==
    /\ initialized = [s \in Services |-> FALSE]
    /\ pc = [c \in Callers |-> "idle"]
    /\ call = [c \in Callers |-> NoCall]
    /\ ret = [c \in Callers |-> NoRet]
    /\ completed = {}

\* A caller invokes a method: the coroutine object is created, nothing runs.
Call(c) ==
    /\ pc[c] = "idle"
    /\ \E k \in AllCalls : call' = [call EXCEPT ![c] = k]
    /\ pc' = [pc EXCEPT ![c] = "pending"]
    /\ UNCHANGED <<initialized, ret, completed>>

\* The caller has consumed the outcome of its coroutine.
Return(c) ==
    /\ pc[c] = "done"
    /\ pc' = [pc EXCEPT ![c] = "idle"]
    /\ call' = [call EXCEPT ![c] = NoCall]
    /\ ret' = [ret EXCEPT ![c] = NoRet]
    /\ UNCHANGED <<initialized, completed>>

Scheduled(c, s, op) ==
    /\ pc[c] = "pending"
    /\ call[c].svc = s
    /\ call[c].op = op

Finish(c, r) ==
    /\ pc' = [pc EXCEPT ![c] = "done"]
    /\ ret' = [ret EXCEPT ![c] = r]
    /\ UNCHANGED call

\* ---------------------------------------------------------- MemoryService
MemoryNotInitialized == Raised("Memory service not initialized")

\* Mutant: initialize() sets the flag of every service, as a flag shared
\* between the service classes would.
MemoryInitialize_SharedFlag(c) ==
    /\ Scheduled(c, "memory", "initialize")
    /\ initialized' = [s \in Services |-> TRUE]
    /\ completed' = completed \cup {"memory"}
    /\ Finish(c, Returned(NoValue))

MemoryInitialize(c) ==
    /\ Scheduled(c, "memory", "initialize")
    /\ initialized' = [initialized EXCEPT !["memory"] = TRUE]
    /\ completed' = completed \cup {"memory"}
    /\ Finish(c, Returned(NoValue))

\* Mutant: the identifier counts the dict's entries, len(conversation_data),
\* instead of the characters of its rendering.
SaveConversationResult_LenOfDict(flag, conversation_data) ==
    IF ~flag THEN MemoryNotInitialized
    ELSE Returned(PyString("conv_" \o Decimal(Len(conversation_data))))

SaveConversationResult(flag, conversation_data) ==
    IF ~flag THEN MemoryNotInitialized
    ELSE LET conversation_id == "conv_" \o Decimal(Len(PyStr(conversation_data)))
         IN  Returned(PyString(conversation_id))

SaveConversation(c) ==
    /\ Scheduled(c, "memory", "save_conversation")
    /\ Finish(c, SaveConversationResult(initialized["memory"], call[c].conversation_data))
    /\ UNCHANGED <<initialized, completed>>

\* Mutant: an initialized service with limit 0 returns None instead of [].
GetConversationsResult_NoneOnZero(flag, user_id, limit) ==
    IF ~flag THEN MemoryNotInitialized
    ELSE IF limit = 0 THEN Returned(NoValue) ELSE Returned(PyList(<< >>))

GetConversationsResult(flag, user_id, limit) ==
    IF ~flag THEN MemoryNotInitialized
    ELSE Returned(PyList(<< >>))

GetConversations(c) ==
    /\ Scheduled(c, "memory", "get_conversations")
    /\ Finish(c, GetConversationsResult(initialized["memory"], call[c].user_id, call[c].limit))
    /\ UNCHANGED <<initialized, completed>>

\* Mutant: the guard is inverted (if self.initialized: raise).
SavePreferencesResult_InvertedGuard(flag, user_id, preferences) ==
    IF flag THEN MemoryNotInitialized
    ELSE Returned(NoValue)

SavePreferencesResult(flag, user_id, preferences) ==
    IF ~flag THEN MemoryNotInitialized
    ELSE Returned(NoValue)

SavePreferences(c) ==
    /\ Scheduled(c, "memory", "save_preferences")
    /\ Finish(c, SavePreferencesResult(initialized["memory"], call[c].user_id, call[c].preferences))
    /\ UNCHANGED <<initialized, completed>>

\* Mutant: the third field is named "backend".
MemoryStatus_BackendField(flag) ==
    [available |-> flag, type |-> "placeholder", backend |-> "none"]

MemoryStatus(flag) ==
    [available |-> flag, type |-> "placeholder", storage_backend |-> "none"]

MemoryGetStatus(c) ==
    /\ Scheduled(c, "memory", "get_status")
    /\ Finish(c, Returned(PyDict(MemoryStatus(initialized["memory"]))))
    /\ UNCHANGED <<initialized, completed>>

\* --------------------------------------------------------- PaymentService
PaymentNotInitialized == Raised("Payment service not initialized")

\* Mutant: initialize() flips the flag (self.initialized = not self.initialized).
PaymentInitialize_Toggle(c) ==
    /\ Scheduled(c, "payment", "initialize")
    /\ initialized' = [initialized EXCEPT !["payment"] = ~initialized["payment"]]
    /\ completed' = completed \cup {"payment"}
    /\ Finish(c, Returned(NoValue))

\* Mutant: initialize() refuses to run twice.
PaymentInitialize_Guarded(c) ==
    /\ Scheduled(c, "payment", "initialize")
    /\ IF initialized["payment"]
         THEN /\ Finish(c, Raised("Payment service already initialized"))
              /\ UNCHANGED <<initialized, completed>>
         ELSE /\ initialized' = [initialized EXCEPT !["payment"] = TRUE]
              /\ completed' = completed \cup {"payment"}
              /\ Finish(c, Returned(NoValue))

PaymentInitialize(c) ==
    /\ Scheduled(c, "payment", "initialize")
    /\ initialized' = [initialized EXCEPT !["payment"] = TRUE]
    /\ completed' = completed \cup {"payment"}
    /\ Finish(c, Returned(NoValue))

\* Mutant: an empty payment is rejected (success False).
ProcessPaymentResult_RejectsEmpty(flag, payment_data) ==
    IF ~flag THEN PaymentNotInitialized
    ELSE Returned(PyDict([success |-> Len(payment_data) > 0,
                          transaction_id |-> "txn_placeholder",
                          message |-> "Payment processed (placeholder)"]))

ProcessPaymentResult(flag, payment_data) ==
    IF ~flag THEN PaymentNotInitialized
    ELSE Returned(PyDict([success |-> TRUE,
                          transaction_id |-> "txn_placeholder",
                          message |-> "Payment processed (placeholder)"]))

ProcessPayment(c) ==
    /\ Scheduled(c, "payment", "process_payment")
    /\ Finish(c, ProcessPaymentResult(initialized["payment"], call[c].payment_data))
    /\ UNCHANGED <<initialized, completed>>

\* Mutant: the initialized check is missing.
GetUsageStatsResult_NoGuard(flag, user_id) ==
    Returned(PyDict([usage |-> "unlimited",
                     tier |-> "free",
                     requests_made |-> 0,
                     requests_remaining |-> "unlimited"]))

GetUsageStatsResult(flag, user_id) ==
    IF ~flag THEN PaymentNotInitialized
    ELSE Returned(PyDict([usage |-> "unlimited",
                          tier |-> "free",
                          requests_made |-> 0,
                          requests_remaining |-> "unlimited"]))

GetUsageStats(c) ==
    /\ Scheduled(c, "payment", "get_usage_stats")
    /\ Finish(c, GetUsageStatsResult(initialized["payment"], call[c].user_id))
    /\ UNCHANGED <<initialized, completed>>

\* Mutant: the report says available whatever the flag is.
PaymentStatus_AlwaysAvailable(flag) ==
    [available |-> TRUE, type |-> "placeholder", payment_backend |-> "none"]

PaymentStatus(flag) ==
    [available |-> flag, type |-> "placeholder", payment_backend |-> "none"]

PaymentGetStatus(c) ==
    /\ Scheduled(c, "payment", "get_status")
    /\ Finish(c, Returned(PyDict(PaymentStatus(initialized["payment"]))))
    /\ UNCHANGED <<initialized, completed>>

\* ------------------------------------------------------------------- Next
Next ==
    \E c \in Callers :
        \/ Call(c)
        \/ MemoryInitialize(c)
        \/ SaveConversation(c)
        \/ GetConversations(c)
        \/ SavePreferences(c)
        \/ MemoryGetStatus(c)
        \/ PaymentInitialize(c)
        \/ ProcessPayment(c)
        \/ GetUsageStats(c)
        \/ PaymentGetStatus(c)
        \/ Return(c)

Spec == Init /\ [][Next]_vars

TypeOK ==
    /\ initialized \in [Services -> BOOLEAN]
    /\ pc \in [Callers -> {"idle", "pending", "done"}]
    /\ \A c \in Callers : pc[c] = "idle" <=> call[c] = NoCall
    /\ \A c \in Callers : pc[c] # "done" <=> ret[c] = NoRet
    /\ completed \subseteq Services

\* ================================================================= claims
\* Caller c's coroutine for method op of service s runs in this step.
Ran(c, s, op) == Scheduled(c, s, op) /\ pc'[c] = "done"

RanDataOp(c, s) == \E op \in DataOps : Ran(c, s, op)

\* Caller c holds the outcome of a finished call of method op of service s.
Done(c, s, op) == pc[c] = "done" /\ call[c].svc = s /\ call[c].op = op

NotInitializedMessage(s) ==
    IF s = "memory" THEN "Memory service not initialized"
                    ELSE "Payment service not initialized"

\* C1: a data operation that runs while its service's flag is false raises
\* the RuntimeError "<Service> service not initialized" and returns no value.
C1_UninitializedDataOpFails ==
    [][\A c \in Callers, s \in Services :
          (RanDataOp(c, s) /\ ~initialized[s]) =>
              /\ ret'[c].error = "RuntimeError"
              /\ ret'[c].message = NotInitializedMessage(s)
              /\ ret'[c].value = [kind |-> "none"]]_vars

\* Both services have refused a data operation and neither was ever initialized.
C1_Witness ==
    /\ completed = {}
    /\ \E c \in Callers, op \in DataOps :
          Done(c, "memory", op) /\ ret[c].error = "RuntimeError"
    /\ \E c \in Callers, op \in DataOps :
          Done(c, "payment", op) /\ ret[c].error = "RuntimeError"

\* C2: get_status() never fails and reports available = the flag at the
\* moment it runs: false while no initialize() of the service has finished,
\* true ever after one has.
C2_StatusAvailableIsFlag ==
    [][\A c \in Callers, s \in Services :
          Ran(c, s, "get_status") =>
              /\ ret'[c].error = "none"
              /\ ret'[c].value.kind = "dict"
              /\ ret'[c].value.dict.available = initialized[s]
              /\ ret'[c].value.dict.available = (s \in completed)]_vars

\* One report taken after initialize() says available, one taken on a
\* service never initialized says unavailable.
C2_Witness ==
    \E c1, c2 \in Callers, s1, s2 \in Services :
        /\ Done(c1, s1, "get_status") /\ s1 \in completed
        /\ ret[c1].value.dict.available = TRUE
        /\ Done(c2, s2, "get_status") /\ s2 \notin completed
        /\ ret[c2].value.dict.available = FALSE

\* C3: each flag is false at construction and no step takes it from true to
\* false.
C3_FlagMonotonic ==
    /\ \A s \in Services : initialized[s] = FALSE
    /\ [][\A s \in Services : initialized[s] => initialized'[s]]_vars

\* A service's flag is true while one caller holds the outcome of its
\* initialize() and another the answer of one of its data operations.
C3_Witness ==
    \E c1, c2 \in Callers, s \in Services, op \in DataOps :
        /\ c1 # c2
        /\ Done(c1, s, "initialize")
        /\ Done(c2, s, op) /\ ret[c2].error = "none"
        /\ initialized[s]

\* len(str(d)) counted entry by entry: the braces, and per entry the quoted
\* key, ": ", the value, and ", " between entries.
ValueWidth(v) ==
    IF v.kind = "int" THEN Len(ToString(v.int)) ELSE Len(v.str) + 2

RECURSIVE EntriesWidth(_)
EntriesWidth(d) ==
    IF Len(d) = 0 THEN 0
    ELSE Len(d[1].key) + 2 + 2 + ValueWidth(d[1].value)
         + (IF Len(d) > 1 THEN 2 ELSE 0) + EntriesWidth(Tail(d))

RenderedLength(d) == 2 + EntriesWidth(d)

\* C4: on an initialized memory service save_conversation(payload) does not
\* raise and returns "conv_" followed by the decimal length of str(payload):
\* a non-empty string that is the same for payloads of the same rendered
\* length; the service's state is left as it was.
C4_SaveConversationId ==
    [][\A c \in Callers :
          (Ran(c, "memory", "save_conversation") /\ initialized["memory"]) =>
              /\ ret'[c].error = "none"
              /\ ret'[c].value.kind = "str"
              /\ ret'[c].value.str =
                    "conv_" \o ToString(RenderedLength(call[c].conversation_data))
              /\ Len(ret'[c].value.str) > Len("conv_")
              /\ initialized' = initialized
              /\ \A c2 \in Callers :
                    ( /\ pc'[c2] = "done"
                      /\ call'[c2].op = "save_conversation"
                      /\ ret'[c2].error = "none"
                      /\ RenderedLength(call'[c2].conversation_data)
                            = RenderedLength(call[c].conversation_data) )
                    => ret'[c2] = ret'[c]]_vars

\* save({"a": 1}) returned "conv_8" and a two-entry payload returned a
\* two-digit identifier.
C4_Witness ==
    \E c1, c2 \in Callers :
        /\ Done(c1, "memory", "save_conversation")
        /\ call[c1].conversation_data = <<[key |-> "a", value |-> [kind |-> "int", int |-> 1]]>>
        /\ ret[c1].value = [kind |-> "str", str |-> "conv_8"]
        /\ Done(c2, "memory", "save_conversation")
        /\ Len(call[c2].conversation_data) = 2
        /\ ret[c2].error = "none"
        /\ Len(ret[c2].value.str) = 7

\* C5: on an initialized memory service get_conversations(user_id, limit)
\* returns the empty list, whatever the arguments and whatever was saved.
C5_GetConversationsEmpty ==
    [][\A c \in Callers :
          (Ran(c, "memory", "get_conversations") /\ initialized["memory"]) =>
              /\ ret'[c].error = "none"
              /\ ret'[c].value = [kind |-> "list", list |-> << >>]]_vars

\* A conversation was saved and a listing with limit 0 came back empty.
C5_Witness ==
    \E c1, c2 \in Callers :
        /\ Done(c1, "memory", "save_conversation") /\ ret[c1].error = "none"
        /\ Len(call[c1].conversation_data) > 0
        /\ Done(c2, "memory", "get_conversations") /\ ret[c2].error = "none"
        /\ call[c2].limit = 0
        /\ ret[c2].value.kind = "list" /\ Len(ret[c2].value.list) = 0

\* C6: on an initialized payment service process_payment(payload) returns
\* success = True and transaction_id = "txn_placeholder" for every payload.
C6_ProcessPaymentConstant ==
    [][\A c \in Callers :
          (Ran(c, "payment", "process_payment") /\ initialized["payment"]) =>
              /\ ret'[c].error = "none"
              /\ ret'[c].value.kind = "dict"
              /\ ret'[c].value.dict.success = TRUE
              /\ ret'[c].value.dict.transaction_id = "txn_placeholder"
              /\ \A c2 \in Callers :
                    ( /\ pc'[c2] = "done"
                      /\ call'[c2].op = "process_payment"
                      /\ ret'[c2].error = "none" )
                    => ret'[c2] = ret'[c]]_vars

\* Two different payments, one of them empty, were both reported successful.
C6_Witness ==
    \E c1, c2 \in Callers :
        /\ Done(c1, "payment", "process_payment")
        /\ Done(c2, "payment", "process_payment")
        /\ call[c1].payment_data = << >>
        /\ call[c2].payment_data # << >>
        /\ ret[c1].error = "none" /\ ret[c1].value.dict.success = TRUE
        /\ ret[c2].error = "none" /\ ret[c2].value.dict.success = TRUE

BackendField(s) == IF s = "memory" THEN "storage_backend" ELSE "payment_backend"

\* C7 as stated: every status report has exactly the fields available, type
\* and backend, the same for both services.
C7_StatusFieldsAsClaimed ==
    \A c \in Callers, s \in Services :
        Done(c, s, "get_status") =>
            DOMAIN ret[c].value.dict = {"available", "type", "backend"}

\* C7 (amended): every status report has exactly three fields: available
\* (the flag, a boolean), type = "placeholder", and a backend field whose
\* name depends on the service (storage_backend for memory, payment_backend
\* for payment) and whose value is "none".
C7_StatusShape ==
    [][\A c \in Callers, s \in Services :
          Ran(c, s, "get_status") =>
              LET report == ret'[c].value.dict
              IN  /\ DOMAIN report = {"available", "type", BackendField(s)}
                  /\ report.available \in BOOLEAN
                  /\ report.available = initialized[s]
                  /\ report.type = "placeholder"
                  /\ report[BackendField(s)] = "none"]_vars

\* Both services have reported their status; the reports share the fields
\* available and type and differ in the name of the third.
C7_Witness ==
    \E c1, c2 \in Callers :
        /\ Done(c1, "memory", "get_status")
        /\ Done(c2, "payment", "get_status")
        /\ DOMAIN ret[c1].value.dict \cap DOMAIN ret[c2].value.dict
              = {"available", "type"}
        /\ Cardinality(DOMAIN ret[c1].value.dict) = 3
        /\ Cardinality(DOMAIN ret[c2].value.dict) = 3

\* C8: initialize() never fails, and whatever the flag was, the state it
\* leaves is the state one initialize() leaves: this service's flag true,
\* the other's untouched; so a service on which any number of initialize()
\* calls have finished is in that same state.
C8_InitializeIdempotent ==
    [][/\ \A c \in Callers, s \in Services :
             Ran(c, s, "initialize") =>
                 /\ ret'[c].error = "none"
                 /\ initialized' = [initialized EXCEPT ![s] = TRUE]
       /\ \A s \in completed' : initialized'[s]]_vars

\* Two initialize() calls on the same service have both finished.
C8_Witness ==
    \E s \in Services :
        /\ \A c \in Callers : Done(c, s, "initialize") /\ ret[c].error = "none"
        /\ initialized[s]

\* C9: a data operation fails exactly when the flag is false at the moment
\* it runs, the failure is the RuntimeError, and after an initialize() of
\* its service has finished it does not fail.
C9_NoFailureAfterInitialize ==
    [][\A c \in Callers, s \in Services :
          RanDataOp(c, s) =>
              /\ ret'[c].error \in {"none", "RuntimeError"}
              /\ (ret'[c].error = "RuntimeError") <=> ~initialized[s]
              /\ (s \in completed) => ret'[c].error = "none"]_vars

\* While one caller's initialize() outcome is still held, the other caller
\* has got an answer from a data operation of the same service.
C9_Witness ==
    \E c1, c2 \in Callers, s \in Services, op \in DataOps :
        /\ Done(c1, s, "initialize")
        /\ Done(c2, s, op)
        /\ ret[c2].error = "none"
        /\ ret[c2].value.kind # "unset"

\* C10: a flag changes only in a step in which that service's initialize()
\* runs; data operations and get_status() leave both flags as they were.
C10_OnlyInitializeWritesFlag ==
    [][/\ \A s \in Services :
             initialized'[s] # initialized[s] =>
                 \E c \in Callers : Ran(c, s, "initialize")
       /\ \A c \in Callers, s \in Services :
             (RanDataOp(c, s) \/ Ran(c, s, "get_status")) =>
                 initialized' = initialized]_vars

\* Only the memory service is initialized: it answered a data operation
\* and the payment service refused one.
C10_Witness ==
    \E c1, c2 \in Callers, op1, op2 \in DataOps :
        /\ initialized = [s \in Services |-> s = "memory"]
        /\ completed = {"memory"}
        /\ Done(c1, "memory", op1) /\ ret[c1].error = "none"
        /\ Done(c2, "payment", op2) /\ ret[c2].error = "RuntimeError"
====
